---- MODULE Spec2Model ----
(***************************************************************************)
(* Worker pool of src/workerPoolPattern.go: main spawns numWorkers worker  *)
(* goroutines, enqueues numJobs jobs on the buffered channel jobs, closes  *)
(* it, starts a closer goroutine (wg.Wait(); close(results)) and ranges    *)
(* over the buffered channel results.  Every goroutine is a process with a *)
(* program counter; one action per channel / WaitGroup operation.          *)
(***************************************************************************)
EXTENDS Integers, Sequences, FiniteSets, TLC

VARIABLES numJobs, numWorkers, mpc, i, jobs, results, wg, workers, cpc,
          collected, claimed, sent, err

vars == <<numJobs, numWorkers, mpc, i, jobs, results, wg, workers, cpc,
          collected, claimed, sent, err>>

\* Largest job count and pool size explored.
MaxJobs == 3
MaxWorkers == 3

\* Largest job count explored under fair scheduling.
MaxFairJobs == 2

\* The runs explored: numJobs and numWorkers of main range over every
\* (M, N) within the bounds.
Configs == (0..MaxJobs) \X (1..MaxWorkers)
FairConfigs == (0..MaxFairJobs) \X (1..MaxWorkers)

\* make(chan int, n): an open channel with an empty buffer of capacity n.
\* (With n = 0 the channel is unbuffered; no send is ever executed on it
\* then, because both channels get capacity numJobs.)
MakeChan(n) == [buf |-> <<>>, closed |-> FALSE, cap |-> n]

\* Variant: the jobs buffer is one slot short.
JobsCapShort(M) == M - 1

\* make(chan int, numJobs) of jobs: its capacity.
JobsCap(M) == M

\* Variant: the results buffer is one slot short.
ResultsCapShort(M) == M - 1

\* make(chan int, numJobs) of results: its capacity.
ResultsCap(M) == M

\* Variant: squares instead of doubling.
fSquare(job) == job * job

\* Variant: adds 2 instead of doubling.
fPlus(job) == job + 2

\* results <- job * 2
f(job) == job * 2

\* Variant: the spawn loop runs once too often.
SpawnCondOffByOne(k) == k <= numWorkers + 1

\* i <= numWorkers, the condition of the spawn loop.
SpawnCond(k) == k <= numWorkers

\* Variant: the enqueue loop stops one job short.
EnqueueCondOffByOne(k) == k < numJobs

\* i <= numJobs, the condition of the enqueue loop.
EnqueueCond(k) == k <= numJobs

\* The process is alive: main has not returned and no goroutine panicked.
Running == mpc # "done" /\ err = ""

\* The state of main after its declarations, for M jobs and N workers.
Start(M, N) ==
    /\ numJobs = M
    /\ numWorkers = N
    /\ mpc = "spawn"
    /\ i = 1
    /\ jobs = MakeChan(JobsCap(numJobs))
    /\ results = MakeChan(ResultsCap(numJobs))
    /\ wg = 0
    /\ workers = <<>>
    /\ cpc = "none"
    /\ collected = <<>>
    /\ claimed = <<>>
    /\ sent = <<>>
    /\ err = ""

Init == \E c \in Configs : Start(c[1], c[2])

\* ---- main ----

\* Variant: wg.Add(1) is forgotten.
MainAddMissing ==
    /\ Running /\ mpc = "spawn" /\ SpawnCond(i)
    /\ mpc' = "go"
    /\ UNCHANGED <<numJobs, numWorkers, i, jobs, results, wg, workers, cpc,
                   collected, claimed, sent, err>>

\* wg.Add(1) in the spawn loop.
MainAdd ==
    /\ Running /\ mpc = "spawn" /\ SpawnCond(i)
    /\ wg' = wg + 1
    /\ mpc' = "go"
    /\ UNCHANGED <<numJobs, numWorkers, i, jobs, results, workers, cpc,
                   collected, claimed, sent, err>>

\* go func(workerID int) {...}(i); i++
MainGo ==
    /\ Running /\ mpc = "go"
    /\ workers' = Append(workers, [pc |-> "range", job |-> 0, n |-> 0])
    /\ i' = i + 1
    /\ mpc' = "spawn"
    /\ UNCHANGED <<numJobs, numWorkers, jobs, results, wg, cpc,
                   collected, claimed, sent, err>>

\* Variant: close(jobs) is placed before the enqueue loop.
MainSpawnEndClosing ==
    /\ Running /\ mpc = "spawn" /\ ~SpawnCond(i)
    /\ i' = 1
    /\ mpc' = "enqueue"
    /\ jobs' = [jobs EXCEPT !.closed = TRUE]
    /\ UNCHANGED <<numJobs, numWorkers, results, wg, workers, cpc,
                   collected, claimed, sent, err>>

\* The spawn loop ends; i := 1 of the enqueue loop.
MainSpawnEnd ==
    /\ Running /\ mpc = "spawn" /\ ~SpawnCond(i)
    /\ i' = 1
    /\ mpc' = "enqueue"
    /\ UNCHANGED <<numJobs, numWorkers, jobs, results, wg, workers, cpc,
                   collected, claimed, sent, err>>

\* jobs <- i; i++.  Blocks while the buffer is full; panics on a closed
\* channel.
MainEnqueue ==
    /\ Running /\ mpc = "enqueue" /\ EnqueueCond(i)
    /\ IF jobs.closed
          THEN /\ err' = "send on closed channel"
               /\ UNCHANGED <<jobs, i>>
          ELSE /\ Len(jobs.buf) < jobs.cap
               /\ jobs' = [jobs EXCEPT !.buf = Append(@, i)]
               /\ i' = i + 1
               /\ err' = err
    /\ UNCHANGED <<numJobs, numWorkers, mpc, results, wg, workers, cpc,
                   collected, claimed, sent>>

\* The enqueue loop ends.
MainEnqueueEnd ==
    /\ Running /\ mpc = "enqueue" /\ ~EnqueueCond(i)
    /\ mpc' = "close_jobs"
    /\ UNCHANGED <<numJobs, numWorkers, i, jobs, results, wg, workers, cpc,
                   collected, claimed, sent, err>>

\* Variant: close(jobs) is forgotten.
MainCloseJobsForgotten ==
    /\ Running /\ mpc = "close_jobs"
    /\ mpc' = "go_closer"
    /\ UNCHANGED <<numJobs, numWorkers, i, jobs, results, wg, workers, cpc,
                   collected, claimed, sent, err>>

\* close(jobs)
MainCloseJobs ==
    /\ Running /\ mpc = "close_jobs"
    /\ IF jobs.closed
          THEN /\ err' = "close of closed channel"
               /\ UNCHANGED <<jobs, mpc>>
          ELSE /\ jobs' = [jobs EXCEPT !.closed = TRUE]
               /\ mpc' = "go_closer"
               /\ err' = err
    /\ UNCHANGED <<numJobs, numWorkers, i, results, wg, workers, cpc,
                   collected, claimed, sent>>

\* Variant: the closer goroutine is never started, so results is never
\* closed.
MainNoCloser ==
    /\ Running /\ mpc = "go_closer"
    /\ mpc' = "collect"
    /\ UNCHANGED <<numJobs, numWorkers, i, jobs, results, wg, workers, cpc,
                   collected, claimed, sent, err>>

\* go func() { wg.Wait(); close(results) }()
MainGoCloser ==
    /\ Running /\ mpc = "go_closer"
    /\ cpc' = "wait"
    /\ mpc' = "collect"
    /\ UNCHANGED <<numJobs, numWorkers, i, jobs, results, wg, workers,
                   collected, claimed, sent, err>>

\* for result := range results: one iteration, receiving the oldest
\* buffered result and printing it.
MainCollect ==
    /\ Running /\ mpc = "collect"
    /\ results.buf # <<>>
    /\ collected' = Append(collected, Head(results.buf))
    /\ results' = [results EXCEPT !.buf = Tail(@)]
    /\ UNCHANGED <<numJobs, numWorkers, mpc, i, jobs, wg, workers, cpc,
                   claimed, sent, err>>

\* Variant: the loop over results ends as soon as the buffer is empty.
MainCollectEndEarly ==
    /\ Running /\ mpc = "collect"
    /\ results.buf = <<>>
    /\ mpc' = "done"
    /\ UNCHANGED <<numJobs, numWorkers, i, jobs, results, wg, workers, cpc,
                   collected, claimed, sent, err>>

\* The range loop over results ends: the channel is closed and drained.
MainCollectEnd ==
    /\ Running /\ mpc = "collect"
    /\ results.buf = <<>> /\ results.closed
    /\ mpc' = "done"
    /\ UNCHANGED <<numJobs, numWorkers, i, jobs, results, wg, workers, cpc,
                   collected, claimed, sent, err>>

\* ---- worker(id, jobs, results) ----

\* Variant: the receive does not block; an empty buffer ends the loop.
WorkerRecvNonBlocking(w) ==
    /\ Running /\ workers[w].pc = "range"
    /\ IF jobs.buf # <<>>
          THEN /\ workers' = [workers EXCEPT ![w].pc = "work",
                                             ![w].job = Head(jobs.buf),
                                             ![w].n = @ + 1]
               /\ jobs' = [jobs EXCEPT !.buf = Tail(@)]
               /\ claimed' = Append(claimed, Head(jobs.buf))
          ELSE /\ workers' = [workers EXCEPT ![w].pc = "defer"]
               /\ UNCHANGED <<jobs, claimed>>
    /\ UNCHANGED <<numJobs, numWorkers, mpc, i, results, wg, cpc,
                   collected, sent, err>>

\* Variant: the receive reads the oldest job without removing it.
WorkerRecvPeek(w) ==
    /\ Running /\ workers[w].pc = "range"
    /\ IF jobs.buf # <<>>
          THEN /\ workers' = [workers EXCEPT ![w].pc = "work",
                                             ![w].job = Head(jobs.buf),
                                             ![w].n = @ + 1]
               /\ claimed' = Append(claimed, Head(jobs.buf))
               /\ jobs' = jobs
          ELSE /\ jobs.closed
               /\ workers' = [workers EXCEPT ![w].pc = "defer"]
               /\ UNCHANGED <<jobs, claimed>>
    /\ UNCHANGED <<numJobs, numWorkers, mpc, i, results, wg, cpc,
                   collected, sent, err>>

\* Variant: the receive takes the newest buffered job.
WorkerRecvNewest(w) ==
    /\ Running /\ workers[w].pc = "range"
    /\ IF jobs.buf # <<>>
          THEN /\ workers' = [workers EXCEPT ![w].pc = "work",
                                             ![w].job = jobs.buf[Len(jobs.buf)],
                                             ![w].n = @ + 1]
               /\ jobs' = [jobs EXCEPT !.buf = SubSeq(@, 1, Len(@) - 1)]
               /\ claimed' = Append(claimed, jobs.buf[Len(jobs.buf)])
          ELSE /\ jobs.closed
               /\ workers' = [workers EXCEPT ![w].pc = "defer"]
               /\ UNCHANGED <<jobs, claimed>>
    /\ UNCHANGED <<numJobs, numWorkers, mpc, i, results, wg, cpc,
                   collected, sent, err>>

\* for job := range jobs: receive the oldest buffered job, or leave the
\* loop when the channel is closed and drained; blocks otherwise.
WorkerRecv(w) ==
    /\ Running /\ workers[w].pc = "range"
    /\ IF jobs.buf # <<>>
          THEN /\ workers' = [workers EXCEPT ![w].pc = "work",
                                             ![w].job = Head(jobs.buf),
                                             ![w].n = @ + 1]
               /\ jobs' = [jobs EXCEPT !.buf = Tail(@)]
               /\ claimed' = Append(claimed, Head(jobs.buf))
          ELSE /\ jobs.closed
               /\ workers' = [workers EXCEPT ![w].pc = "defer"]
               /\ UNCHANGED <<jobs, claimed>>
    /\ UNCHANGED <<numJobs, numWorkers, mpc, i, results, wg, cpc,
                   collected, sent, err>>

\* fmt.Printf("Worker %d processing job %d\n", id, job); time.Sleep(...)
WorkerWork(w) ==
    /\ Running /\ workers[w].pc = "work"
    /\ workers' = [workers EXCEPT ![w].pc = "send"]
    /\ UNCHANGED <<numJobs, numWorkers, mpc, i, jobs, results, wg, cpc,
                   collected, claimed, sent, err>>

\* results <- job * 2.  Blocks while the buffer is full; panics on a
\* closed channel.
WorkerSend(w) ==
    /\ Running /\ workers[w].pc = "send"
    /\ IF results.closed
          THEN /\ err' = "send on closed channel"
               /\ UNCHANGED <<results, workers, sent>>
          ELSE /\ Len(results.buf) < results.cap
               /\ results' = [results EXCEPT !.buf = Append(@, f(workers[w].job))]
               /\ sent' = Append(sent, f(workers[w].job))
               /\ workers' = [workers EXCEPT ![w].pc = "range", ![w].job = 0]
               /\ err' = err
    /\ UNCHANGED <<numJobs, numWorkers, mpc, i, jobs, wg, cpc,
                   collected, claimed>>

\* Variant: the worker returns without wg.Done().
WorkerDoneMissing(w) ==
    /\ Running /\ workers[w].pc = "defer"
    /\ workers' = [workers EXCEPT ![w].pc = "done"]
    /\ UNCHANGED <<numJobs, numWorkers, mpc, i, jobs, results, wg, cpc,
                   collected, claimed, sent, err>>

\* defer wg.Done(), run when worker returns.
WorkerDone(w) ==
    /\ Running /\ workers[w].pc = "defer"
    /\ IF wg - 1 < 0
          THEN /\ err' = "sync: negative WaitGroup counter"
               /\ UNCHANGED <<wg, workers>>
          ELSE /\ wg' = wg - 1
               /\ workers' = [workers EXCEPT ![w].pc = "done"]
               /\ err' = err
    /\ UNCHANGED <<numJobs, numWorkers, mpc, i, jobs, results, cpc,
                   collected, claimed, sent>>

\* ---- closer goroutine ----

\* Variant: the closer does not wait for the counter.
CloserNoWait ==
    /\ Running /\ cpc = "wait"
    /\ cpc' = "close"
    /\ UNCHANGED <<numJobs, numWorkers, mpc, i, jobs, results, wg, workers,
                   collected, claimed, sent, err>>

\* wg.Wait(): returns once the counter is zero.
CloserWait ==
    /\ Running /\ cpc = "wait"
    /\ wg = 0
    /\ cpc' = "close"
    /\ UNCHANGED <<numJobs, numWorkers, mpc, i, jobs, results, wg, workers,
                   collected, claimed, sent, err>>

\* Variant: the closer stays at close(results) and runs it again.
CloserCloseAgain ==
    /\ Running /\ cpc = "close"
    /\ IF results.closed
          THEN /\ err' = "close of closed channel"
               /\ UNCHANGED <<results, cpc>>
          ELSE /\ results' = [results EXCEPT !.closed = TRUE]
               /\ cpc' = "close"
               /\ err' = err
    /\ UNCHANGED <<numJobs, numWorkers, mpc, i, jobs, wg, workers,
                   collected, claimed, sent>>

\* close(results)
CloserClose ==
    /\ Running /\ cpc = "close"
    /\ IF results.closed
          THEN /\ err' = "close of closed channel"
               /\ UNCHANGED <<results, cpc>>
          ELSE /\ results' = [results EXCEPT !.closed = TRUE]
               /\ cpc' = "done"
               /\ err' = err
    /\ UNCHANGED <<numJobs, numWorkers, mpc, i, jobs, wg, workers,
                   collected, claimed, sent>>

\* The steps of each goroutine, for the scheduler's fairness.
MainStep ==
    \/ MainAdd
    \/ MainGo
    \/ MainSpawnEnd
    \/ MainEnqueue
    \/ MainEnqueueEnd
    \/ MainCloseJobs
    \/ MainGoCloser
    \/ MainCollect
    \/ MainCollectEnd

WorkerStep(w) ==
    /\ w \in DOMAIN workers
    /\ \/ WorkerRecv(w)
       \/ WorkerWork(w)
       \/ WorkerSend(w)
       \/ WorkerDone(w)

CloserStep ==
    \/ CloserWait
    \/ CloserClose

Next ==
    \/ MainAdd
    \/ MainGo
    \/ MainSpawnEnd
    \/ MainEnqueue
    \/ MainEnqueueEnd
    \/ MainCloseJobs
    \/ MainGoCloser
    \/ MainCollect
    \/ MainCollectEnd
    \/ \E w \in DOMAIN workers : WorkerRecv(w)
    \/ \E w \in DOMAIN workers : WorkerWork(w)
    \/ \E w \in DOMAIN workers : WorkerSend(w)
    \/ \E w \in DOMAIN workers : WorkerDone(w)
    \/ CloserWait
    \/ CloserClose

Spec == Init /\ [][Next]_vars

\* The Go scheduler runs every goroutine that stays runnable.
Fairness ==
    /\ WF_vars(MainStep)
    /\ \A w \in 1..MaxWorkers : WF_vars(WorkerStep(w))
    /\ WF_vars(CloserStep)

InitFair == \E c \in FairConfigs : Start(c[1], c[2])

\* The steps of main other than receiving from results.
MainBeforeCollect ==
    \/ MainAdd
    \/ MainGo
    \/ MainSpawnEnd
    \/ MainEnqueue
    \/ MainEnqueueEnd
    \/ MainCloseJobs
    \/ MainGoCloser

\* Scheduling in which the range loop of main may never receive: main is
\* only sure to run up to the loop, the workers are sure to run.
SpecNoCollect ==
    /\ InitFair
    /\ [][Next]_vars
    /\ WF_vars(MainBeforeCollect)
    /\ \A w \in 1..MaxWorkers : WF_vars(WorkerStep(w))

FairSpec == InitFair /\ [][Next]_vars /\ Fairness

\* ---- Scenario D: one worker, many jobs ----

\* The job count of the single-worker scenario.
ScenarioDJobs == 100

InitD == \E M \in (0..MaxJobs) \cup {ScenarioDJobs} : Start(M, 1)

SpecD == InitD /\ [][Next]_vars

\* ---- Derived notions used by the properties ----

\* The number of positions of sequence s holding x.
Count(s, x) == Cardinality({k \in 1..Len(s) : s[k] = x})

\* Jobs claimed by a worker whose result has not been sent yet.
InFlight == Len(claimed) - Len(sent)

\* Workers currently holding a job.
Busy == {w \in DOMAIN workers : workers[w].pc \in {"work", "send"}}

\* Every worker of the pool has been spawned and has run its wg.Done().
AllWorkersExited ==
    /\ Len(workers) = numWorkers
    /\ \A w \in DOMAIN workers : workers[w].pc = "done"

\* The spawn loop is over (every wg.Add(1) was made) and the counter is
\* back at zero.
BarrierReachedZero == mpc \notin {"spawn", "go"} /\ wg = 0

\* Job j sits in the Job Queue / has been claimed.
Buffered(j) == \E k \in 1..Len(jobs.buf) : jobs.buf[k] = j
Claimed(j) == \E k \in 1..Len(claimed) : claimed[k] = j

\* ---- C1 ----
\* C1: for M >= 1 jobs and N >= 1 workers, in every interleaving the
\* results produced and collected are doubles of distinct enqueued jobs,
\* and when the run is over exactly M results were produced and exactly M
\* collected, one 2*j for each job j of 1..M (a bijection).
C1_Bijection ==
    numJobs >= 1 =>
        /\ \A k \in 1..Len(collected) :
              \E j \in 1..numJobs : collected[k] = 2 * j
        /\ \A j \in 1..numJobs : Count(collected, 2 * j) <= 1
        /\ \A j \in 1..numJobs : Count(sent, 2 * j) <= 1
        /\ Len(sent) <= numJobs
        /\ mpc = "done" =>
              /\ Len(sent) = numJobs
              /\ Len(collected) = numJobs
              /\ \A j \in 1..numJobs : Count(collected, 2 * j) = 1

\* A finished run with more jobs than workers and several workers.
C1_Witness ==
    /\ mpc = "done"
    /\ numJobs >= 3 /\ numWorkers = 2
    /\ Len(collected) = numJobs
    /\ collected[1] = 4

\* ---- C2 ----
\* C2: for M >= 0 and N >= 1, under fair scheduling the run terminates:
\* every worker exits, the closer closes results and the range loop of
\* main returns; and no state before that is one where nothing can run.
C2_Terminates ==
    /\ <>(/\ mpc = "done"
          /\ AllWorkersExited
          /\ cpc = "done"
          /\ results.closed
          /\ err = "")
    /\ [](mpc # "done" => ENABLED Next)

\* A finished run of the largest pool on several jobs.
C2_Witness ==
    /\ mpc = "done" /\ AllWorkersExited /\ results.closed
    /\ numJobs >= 2 /\ numWorkers = 3

\* ---- C3 ----
\* C3: whenever results is closed, every worker has exited after
\* completing all its sends (every claimed job's result was sent, all M of
\* them), and no send ever hit the closed channel.
C3_ClosedAfterSends ==
    /\ results.closed =>
          /\ AllWorkersExited
          /\ Busy = {}
          /\ Len(sent) = Len(claimed)
          /\ Len(sent) = numJobs
    /\ err # "send on closed channel"

\* results closed while the Collector still has results to drain.
C3_Witness ==
    /\ results.closed /\ mpc = "collect"
    /\ numWorkers >= 2 /\ Len(sent) >= 2 /\ Len(results.buf) >= 1

\* ---- C4 ----
\* C4: at every instant at most N jobs are in flight (claimed, result not
\* yet sent), and they are held by as many distinct workers: each worker
\* holds at most one job.
C4_InFlightBound ==
    /\ InFlight <= numWorkers
    /\ InFlight = Cardinality(Busy)
    /\ InFlight >= 0

\* All N = 3 workers hold a job at once.
C4_Witness == numWorkers = 3 /\ InFlight = 3

\* ---- C5 ----
\* C5: every job put on the Job Queue is eventually claimed, and no job
\* is claimed twice (by two workers or by the same one): a job is never
\* both buffered and claimed, and occurs once at most in either.
C5_ClaimedExactlyOnce ==
    /\ \A j \in 1..MaxFairJobs : (Buffered(j) ~> Claimed(j))
    /\ [](\A j \in 1..MaxFairJobs :
             /\ Count(claimed, j) + Count(jobs.buf, j) <= 1
             /\ (mpc \notin {"spawn", "go"} /\ j < i /\ j <= numJobs)
                   => Count(claimed, j) + Count(jobs.buf, j) = 1)

\* Every job of a several-job run was claimed, by more than one worker.
C5_Witness ==
    /\ numJobs >= 2 /\ Len(claimed) = numJobs
    /\ \E w \in DOMAIN workers : workers[w].n >= 1 /\ workers[w].n < numJobs

\* ---- C6 ----
\* C6 as stated: in every reachable state, results is closed if and only
\* if the Completion Barrier counter has reached zero.
C6_Original == results.closed <=> BarrierReachedZero

\* C6 amended: results is closed only if the barrier has reached zero,
\* and once the barrier has reached zero results is eventually closed (the
\* closer closes it in a later step, not in the same instant).
C6_ClosedOnlyAfterZero ==
    /\ [](results.closed => BarrierReachedZero)
    /\ (BarrierReachedZero ~> results.closed)

\* The barrier is back at zero after a pool of 3 ran, and results is closed.
C6_Witness ==
    /\ results.closed /\ wg = 0 /\ Len(workers) = 3 /\ numJobs >= 1

\* ---- C7 ----
\* C7: the range loop of main returns only when results is closed and
\* drained and every result sent was received, in the order sent; and
\* once results is closed and empty the loop does return.
C7_CollectorTerminates ==
    /\ [](mpc = "done" =>
             /\ results.closed
             /\ results.buf = <<>>
             /\ collected = sent)
    /\ [](collected \o results.buf = sent)
    /\ ((results.closed /\ results.buf = <<>>) ~> (mpc = "done"))

\* The loop returned after receiving several results, not in job order.
C7_Witness ==
    /\ mpc = "done" /\ Len(collected) >= 2 /\ results.closed
    /\ results.buf = <<>> /\ collected[1] = 4

\* ---- C8 ----
\* C8: with M = 0 and N = 3 no worker ever claims a job or sends a result,
\* nothing is collected, the run ends (no hang), and at the end all three
\* workers have exited and results is closed.
C8_ScenarioB ==
    /\ [](numJobs = 0 /\ numWorkers = 3 =>
             /\ claimed = <<>> /\ sent = <<>> /\ collected = <<>>
             /\ \A w \in DOMAIN workers : workers[w].n = 0
             /\ mpc = "done" => (AllWorkersExited /\ results.closed))
    /\ (numJobs = 0 /\ numWorkers = 3) ~> (mpc = "done")

\* The run with no job and three workers is over.
C8_Witness ==
    /\ numJobs = 0 /\ numWorkers = 3 /\ mpc = "done"
    /\ AllWorkersExited /\ collected = <<>>

\* ---- C9 ----
\* C9: with M = 1 and N = 3 at most one job is ever claimed and one result
\* sent, and when the run is over exactly one result (2) was collected,
\* one worker processed one job and the other two exited without
\* processing any.
C9_ScenarioC ==
    (numJobs = 1 /\ numWorkers = 3) =>
        /\ Len(claimed) <= 1 /\ Len(sent) <= 1
        /\ mpc = "done" =>
              /\ collected = <<2>>
              /\ Cardinality({w \in DOMAIN workers : workers[w].n = 1}) = 1
              /\ Cardinality({w \in DOMAIN workers :
                                workers[w].n = 0 /\ workers[w].pc = "done"}) = 2

\* The run is over and the job went to the last worker.
C9_Witness ==
    /\ numJobs = 1 /\ numWorkers = 3 /\ mpc = "done"
    /\ Len(workers) = 3 /\ workers[3].n = 1

\* ---- C10 ----
\* C10: with N = 1 the single worker processes the jobs one at a time
\* and in order, and when the run is over it processed all M jobs and M
\* results were collected, 2, 4, ..., 2M.
C10_ScenarioD ==
    numWorkers = 1 =>
        /\ InFlight <= 1
        /\ Len(workers) <= 1
        /\ \A k \in 1..Len(claimed) : claimed[k] = k
        /\ \A k \in 1..Len(collected) : collected[k] = 2 * k
        /\ \A w \in DOMAIN workers : workers[w].n = Len(claimed)
        /\ mpc = "done" =>
              /\ Len(collected) = numJobs
              /\ workers[1].n = numJobs

\* The 100-job run of the single worker is over.
C10_Witness ==
    /\ numWorkers = 1 /\ numJobs = ScenarioDJobs /\ mpc = "done"
    /\ Len(collected) = ScenarioDJobs

\* ---- C11 ----
\* C11: with M = 1 the only job has the value 1, and for every N and in
\* every interleaving the value sent, buffered and collected for it is
\* 2 * 1; the finished run collected exactly <<2>>.
C11_PureTransform ==
    numJobs = 1 =>
        /\ \A k \in 1..Len(sent) : sent[k] = 2 * 1
        /\ \A k \in 1..Len(results.buf) : results.buf[k] = 2 * 1
        /\ \A k \in 1..Len(collected) : collected[k] = 2 * 1
        /\ \A w \in DOMAIN workers : workers[w].job \in {0, 1}
        /\ mpc = "done" => collected = <<2>>

\* The single job's result was collected in a pool of two workers.
C11_Witness ==
    /\ numJobs = 1 /\ numWorkers = 2 /\ mpc = "done" /\ collected = <<2>>

\* ---- C12 ----
\* Workers registered on the barrier: those spawned, and the one whose
\* wg.Add(1) was made and whose go statement comes next.
Registered == Len(workers) + (IF mpc = "go" THEN 1 ELSE 0)

\* Workers that have run their deferred wg.Done().
Exited == {w \in DOMAIN workers : workers[w].pc = "done"}

\* C12: the barrier counter is always the number of registered workers
\* minus the number of exited workers (one decrement per exit, none
\* without an exit), never more than N workers are registered, and over a
\* finished run there were exactly N increments and N decrements.
C12_OneDonePerWorker ==
    /\ wg = Registered - Cardinality(Exited)
    /\ Registered <= numWorkers
    /\ err # "sync: negative WaitGroup counter"
    /\ mpc = "done" =>
          /\ Registered = numWorkers
          /\ Cardinality(Exited) = numWorkers
          /\ wg = 0

\* Two of three workers have exited, the third has not.
C12_Witness ==
    /\ numWorkers = 3 /\ Cardinality(Exited) = 2 /\ wg = 1

\* ---- C14 ----
\* C14: jobs is closed only once main is past the enqueue loop with all
\* M jobs sent (each in the buffer or claimed); while main is in the loop
\* jobs is open, so no send on the closed Job Queue happens and no
\* goroutine panics.
C14_CloseAfterAllSends ==
    /\ jobs.closed =>
          /\ mpc \in {"go_closer", "collect", "done"}
          /\ i = numJobs + 1
          /\ Len(jobs.buf) + Len(claimed) = numJobs
    /\ mpc \in {"spawn", "go", "enqueue", "close_jobs"} => ~jobs.closed
    /\ err = ""

\* jobs was closed with jobs still buffered.
C14_Witness ==
    /\ jobs.closed /\ numJobs = 3 /\ Len(jobs.buf) >= 2

\* ---- C15 ----
\* C15: a closed queue stays closed; jobs is closed only by main's
\* close(jobs) and results only by the closer's close(results) after the
\* wait, each executed on an open queue and never reached again; the "close
\* of closed channel" panic never happens; a finished run closed both.
C15_ClosedExactlyOnce ==
    /\ [][/\ jobs.closed => jobs'.closed
          /\ results.closed => results'.closed
          /\ (~jobs.closed /\ jobs'.closed) =>
                (mpc = "close_jobs" /\ mpc' = "go_closer")
          /\ (~results.closed /\ results'.closed) =>
                (cpc = "close" /\ cpc' = "done" /\ wg = 0)
          /\ mpc' = "close_jobs" => ~jobs'.closed
          /\ cpc' = "close" => ~results'.closed]_vars
    /\ [](err # "close of closed channel")
    /\ [](mpc = "done" => (jobs.closed /\ results.closed /\ cpc = "done"))

\* Both queues are closed while the Collector still drains.
C15_Witness ==
    /\ jobs.closed /\ results.closed /\ cpc = "done" /\ mpc = "collect"
    /\ numJobs >= 2

\* ---- C16 ----
\* C16: the jobs buffer never holds more than its capacity, and whenever
\* main is about to send a job the buffer has a free slot (the send does
\* not block), even if no job has been claimed so far.
C16_EnqueueNeverBlocks ==
    /\ Len(jobs.buf) <= jobs.cap
    /\ (mpc = "enqueue" /\ i <= numJobs) =>
          /\ Len(jobs.buf) < jobs.cap
          /\ i - 1 < jobs.cap

\* All three jobs sit in the buffer, none claimed.
C16_Witness ==
    /\ numJobs = 3 /\ Len(jobs.buf) = 3 /\ claimed = <<>>

\* ---- C17 ----
\* C17: the k-th claim obtains job k, the buffered jobs are the next ones
\* in enqueue order, and the results received are, in order, the first
\* results sent.
C17_Fifo ==
    /\ \A k \in 1..Len(claimed) : claimed[k] = k
    /\ \A k \in 1..Len(jobs.buf) : jobs.buf[k] = Len(claimed) + k
    /\ Len(collected) <= Len(sent)
    /\ \A k \in 1..Len(collected) : collected[k] = sent[k]
    /\ \A k \in 1..Len(results.buf) : results.buf[k] = sent[Len(collected) + k]

\* The last worker holds the first job and the first worker the second,
\* and the second job's result was sent first.
C17_Witness ==
    /\ Len(workers) = 3 /\ workers[3].job = 1 /\ workers[1].n = 1
    /\ Len(sent) >= 1 /\ sent[1] = 4

\* ---- C18 ----
\* The Coordinator's state: 0 Initialized (spawn loop), 1 Running
\* (enqueue, close(jobs), start of the closer), 2 Draining (the closer
\* waits on the barrier), 3 Closed (results closed).
CoordState ==
    IF results.closed THEN 3
    ELSE IF cpc # "none" THEN 2
    ELSE IF mpc \in {"spawn", "go"} THEN 0
    ELSE 1

\* C18: the Coordinator's state only stays or moves to the next one;
\* exactly N workers are spawned before any job is enqueued; all jobs are
\* enqueued and jobs closed before the barrier wait begins; results is
\* closed only from Draining with the barrier at zero.
C18_CoordinatorOrder ==
    /\ [][/\ CoordState' \in {CoordState, CoordState + 1}
          /\ (CoordState = 2 /\ CoordState' = 3) => wg = 0]_vars
    /\ [](CoordState = 0 => (jobs.buf = <<>> /\ claimed = <<>> /\ ~jobs.closed))
    /\ [](CoordState >= 1 => Len(workers) = numWorkers)
    /\ [](CoordState >= 2 => (jobs.closed /\ i = numJobs + 1))

\* The closer waits while workers are still busy.
C18_Witness ==
    /\ CoordState = 2 /\ cpc = "wait" /\ wg = 3 /\ Len(claimed) >= 1

\* ---- C19 ----
\* C19: the results buffer never holds more than its capacity, and a
\* worker about to send finds a free slot even counting every result sent
\* so far as still buffered; so, even when main never receives, every
\* worker eventually exits.
C19_SendNeverBlocks ==
    /\ [](Len(results.buf) <= results.cap)
    /\ [](\A w \in DOMAIN workers :
             workers[w].pc = "send" =>
                (Len(results.buf) < results.cap /\ Len(sent) < results.cap))
    /\ <>AllWorkersExited
    /\ [](err = "")

\* All workers exited and every result is still in the buffer.
C19_Witness ==
    /\ AllWorkersExited /\ numJobs = 2 /\ Len(results.buf) = 2
    /\ collected = <<>>

\* ---- C20 ----
\* C20: a spawned worker is always counted on the barrier until it exits
\* and the counter is never negative; once the closer is started all N
\* workers are spawned and the counter is the number of them that have not
\* exited; the wait has returned only if all have exited.
C20_RegisteredBeforeStart ==
    /\ wg >= 0
    /\ wg >= Cardinality(DOMAIN workers \ Exited)
    /\ cpc # "none" =>
          /\ Len(workers) = numWorkers
          /\ wg = Cardinality(DOMAIN workers \ Exited)
    /\ cpc \in {"close", "done"} => AllWorkersExited
    /\ err = ""

\* The closer waits and one worker has not yet run at all.
C20_Witness ==
    /\ cpc = "wait" /\ numWorkers = 3 /\ wg = 2
    /\ workers[3].pc = "range" /\ workers[3].n = 0 /\ numJobs >= 1

====
